---------------------------- MODULE Spec2Model ----------------------------
(***************************************************************************)
(* passay-rs: dictionary lookup (binary search over a word list, ternary   *)
(* search tree), the illegal-sequence scanner, CharacterSequence::new, the *)
(* sorters of a word list, PasswordValidator, PasswordGenerator, the        *)
(* substring search of DictionarySubstringRule and the word-list loaders.  *)
(*                                                                         *)
(* Strings are sequences of code points (naturals).  Indices that the code *)
(* keeps 0-based (left, right, mid, positions in a CharacterSequence) are  *)
(* 0-based here; a TLA+ sequence s is read at s[i + 1].                    *)
(***************************************************************************)
EXTENDS Integers, Sequences, FiniteSets, TLC

VARIABLES
    pc,              \* position of the running operation
    words,           \* ArrayWordList.words
    case_sensitive,  \* ArrayWordList.case_sensitive
    word,            \* the search term of binary_search / Dictionary::search
    left,            \* binary_search: left
    right,           \* binary_search: right
    size,            \* binary_search: size
    ret,             \* binary_search: returned Option<usize>, <<>> is None, <<i>> is Some(i)
    tree,            \* TernaryTreeDictionary.tree
    iter,            \* with_wordlist_and_median: number of words of wordlist.iter() consumed
    tst_ret,         \* TernaryTreeDictionary::search result, <<>> before any search
    password,        \* validate: password_data.password()
    sequences,       \* sequence_data.get_sequences()
    length,          \* IllegalSequenceRule.length
    wrap,            \* IllegalSequenceRule.wrap
    report_all,      \* IllegalSequenceRule.report_all
    cs_index,        \* validate: index of cs in the outer loop, 0-based
    char_index,      \* validate: _i of the inner loop, 0-based
    direction,       \* validate: direction
    prev_position,   \* validate: prev_position
    match_builder,   \* validate: match_builder
    result,          \* validate: result.details, the "sequence" parameter of each detail
    calls,           \* number of calls of validate on the rule, the running one included
    prev_results,    \* what the earlier calls of validate returned, in call order
    forms,           \* CharacterSequence::new: the argument strings
    new_ret,         \* CharacterSequence::new: <<>> before the call, then the Result
    sorter,          \* with_sorter: the sorter, "None" for Option::None
    list,            \* with_sorter: <<>> before the call, then the outcome
    rule_results,    \* PasswordValidator: what rule.validate(password_data) returns, by rule
    pv_index,        \* PasswordValidator::validate: number of rules the loop has taken
    pv_result,       \* PasswordValidator::validate: result
    gen_len,         \* generate_password: len
    gen_rules,       \* generate_password: rules, each its valid characters and count
    gen_index,       \* generate_password: number of rules the loop has taken
    target,          \* generate_password: target
    all_chars,       \* generate_password: all_chars
    gen_ret,         \* generate_password: <<>> before the return, then the Result
    text,            \* do_word_search: text
    sub_i,           \* do_word_search: i, the length in bytes of the substrings tried
    sub_j,           \* do_word_search: j, the byte offset of the substring tried
    sub_ret,         \* do_word_search: <<>> before the return, then the Option
    input,           \* the characters the Read of a loader gives
    read_ret,        \* create_from_read: <<>> before the call, then the outcome
    reads_ret        \* create_from_reads: <<>> before the call, then the outcome

dictVars == <<words, case_sensitive, word, left, right, size, ret, tree, iter, tst_ret>>
callVars == <<calls, prev_results>>
scanVars == <<password, sequences, length, wrap, report_all, cs_index, char_index,
              direction, prev_position, match_builder, result, callVars>>
pvVars == <<rule_results, pv_index, pv_result>>
genVars == <<gen_len, gen_rules, gen_index, target, all_chars, gen_ret>>
subVars == <<text, sub_i, sub_j, sub_ret>>
loadVars == <<input, read_ret, reads_ret>>
moreVars == <<genVars, subVars, loadVars>>
restVars == <<forms, new_ret, sorter, list, pvVars, moreVars>>
vars == <<pc, dictVars, scanVars, restVars>>

\* the variables of CharacterSequence::new at rest
NewIdle ==
    /\ forms = <<>>
    /\ new_ret = <<>>

\* the variables of with_sorter at rest
SortIdle ==
    /\ sorter = "None"
    /\ list = <<>>

\* RuleResult::new(valid); the metadata is the set of its <<category, count>> entries
RuleResultNew(valid) == [valid |-> valid, details |-> <<>>, metadata |-> {}]

\* the variables of PasswordValidator::validate at rest
ValidatorIdle ==
    /\ rule_results = <<>>
    /\ pv_index = 0
    /\ pv_result = RuleResultNew(TRUE)

\* the variables of generate_password at rest
GenIdle ==
    /\ gen_len = 0
    /\ gen_rules = <<>>
    /\ gen_index = 0
    /\ target = <<>>
    /\ all_chars = <<>>
    /\ gen_ret = <<>>

\* the variables of do_word_search at rest
SubIdle ==
    /\ text = <<>>
    /\ sub_i = 0
    /\ sub_j = 0
    /\ sub_ret = <<>>

\* the variables of the loaders at rest
LoadIdle ==
    /\ input = <<>>
    /\ read_ret = <<>>
    /\ reads_ret = <<>>

MoreIdle == GenIdle /\ SubIdle /\ LoadIdle

RestIdle == NewIdle /\ SortIdle /\ ValidatorIdle /\ MoreIdle

(***************************************************************************)
(* Bounds of the model.                                                    *)
(***************************************************************************)
MaxKeyLen == 1
MaxListLen == 4
MaxUnsortedLen == 2
MaxChars == 3
MaxQueryLen == 3
MaxPwLen == 3
MaxL == 3
MaxCalls == 2
MaxForms == 3
MaxFormLen == 2
MaxSortLen == 4
MaxRules == 3
MaxGenLen == 3
MaxNumChars == 3
MaxGenRules == 2
MaxBisectLen == 4
MaxTextLen == 3
MaxSubWords == 2
MaxInputLen == 4

Min(S) == CHOOSE x \in S : \A y \in S : x <= y

RECURSIVE SumLen(_)
SumLen(ws) == IF ws = <<>> THEN 0 ELSE Len(Head(ws)) + SumLen(Tail(ws))

\* 'A', 'a', 'b'
Alphabet == {65, 97, 98}

StringsUpTo(n) == UNION {[1..k -> Alphabet] : k \in 0..n}

ListsUpTo(S, n) == UNION {[1..k -> S] : k \in 0..n}

(***************************************************************************)
(* Comparators of a word list.                                             *)
(***************************************************************************)
\* char::to_lowercase on the code points used here (ASCII letters)
LowerChar(c) == IF c \in 65..90 THEN c + 32 ELSE c

to_lowercase(s) == [i \in 1..Len(s) |-> LowerChar(s[i])]

\* str::cmp: lexicographic on the code points, a proper prefix is Less
StrCmp(a, b) ==
    LET n == IF Len(a) < Len(b) THEN Len(a) ELSE Len(b)
        d == {i \in 1..n : a[i] # b[i]}
    IN  IF d # {}
        THEN IF a[Min(d)] < b[Min(d)] THEN "Less" ELSE "Greater"
        ELSE IF Len(a) < Len(b) THEN "Less"
             ELSE IF Len(a) > Len(b) THEN "Greater" ELSE "Equal"

case_sensitive_comparator(a, b) == StrCmp(a, b)

\* mutant of case_insensitive_comparator: only the first operand is lowercased
case_insensitive_half(a, b) == StrCmp(to_lowercase(a), b)

case_insensitive_comparator(a, b) == StrCmp(to_lowercase(a), to_lowercase(b))

\* ArrayWordList::with_sorter picks the comparator from case_sensitive
get_comparator(cs, a, b) ==
    IF cs THEN case_sensitive_comparator(a, b) ELSE case_insensitive_comparator(a, b)

\* the sort invariant of a WordList: no adjacent pair compares Greater
IsSorted(ws, cs) ==
    \A i \in 1..(Len(ws) - 1) : get_comparator(cs, ws[i], ws[i + 1]) # "Greater"

(***************************************************************************)
(* binary_search, one loop iteration per step.                             *)
(***************************************************************************)
\* mutant of BsMid: the lowest index of the interval is probed
BsMidLowest == left

\* line 82: let mid = left + size / 2
BsMid == left + size \div 2

\* mutant of BsCmp: the entries are compared with their exact casing
BsCmpExact == get_comparator(TRUE, words[BsMid + 1], word)

\* lines 84..85: the list's comparator applied to the probed entry and the word
BsCmp == get_comparator(case_sensitive, words[BsMid + 1], word)

\* mutant of BsLeft: the lower bound skips one index more
BsLeftSkips(cmp, mid) == IF cmp = "Less" THEN mid + 2 ELSE left

\* mutant of BsLeft: the probed index stays in the interval
BsLeftKeepsMid(cmp, mid) == IF cmp = "Less" THEN mid ELSE left

BsLeft(cmp, mid) == IF cmp = "Less" THEN mid + 1 ELSE left

\* mutant of BsRight: the upper bound treated as inclusive
BsRightInclusive(cmp, mid) == IF cmp = "Greater" THEN mid - 1 ELSE right

BsRight(cmp, mid) == IF cmp = "Greater" THEN mid ELSE right

BsProbe ==
    /\ pc = "search"
    /\ left < right
    /\ left' = BsLeft(BsCmp, BsMid)
    /\ right' = BsRight(BsCmp, BsMid)
    /\ IF BsCmp = "Equal"
       THEN /\ ret' = <<BsMid>>
            /\ pc' = "done"
            /\ size' = size
       ELSE /\ size' = right' - left'
            /\ ret' = ret
            /\ pc' = pc
    /\ UNCHANGED <<words, case_sensitive, word, tree, iter, tst_ret, scanVars, restVars>>

BsNone ==
    /\ pc = "search"
    /\ ~(left < right)
    /\ ret' = <<>>
    /\ pc' = "done"
    /\ UNCHANGED <<words, case_sensitive, word, left, right, size, tree, iter, tst_ret,
                   scanVars, restVars>>


(***************************************************************************)
(* Tst<()>: the ternary search tree of TernaryTreeDictionary.  Nodes live  *)
(* in an arena, nodes[n] for n >= 1, and 0 is an absent child.             *)
(***************************************************************************)
TstNew(cs) == [case_sensitive |-> cs, nodes |-> <<>>, root |-> 0, count |-> 0]

TstNode(c) == [key |-> c, value |-> FALSE, left |-> 0, mid |-> 0, right |-> 0]

\* comparison of an input character with a node's key under the tree's case policy
TstCmpChar(t, c, key) ==
    LET a == IF t.case_sensitive THEN c ELSE LowerChar(c)
        b == IF t.case_sensitive THEN key ELSE LowerChar(key)
    IN  IF a < b THEN "Less" ELSE IF a > b THEN "Greater" ELSE "Equal"

\* insertion below child link n for the characters w[i..]; gives the tree and the
\* (possibly new) node the link must point to
RECURSIVE TstPut(_, _, _, _)
TstPut(t, n, w, i) ==
    LET t1 == IF n = 0 THEN [t EXCEPT !.nodes = Append(@, TstNode(w[i]))] ELSE t
        m == IF n = 0 THEN Len(t1.nodes) ELSE n
        cmp == TstCmpChar(t1, w[i], t1.nodes[m].key)
    IN  IF cmp = "Less"
        THEN LET r == TstPut(t1, t1.nodes[m].left, w, i)
             IN  [t |-> [r.t EXCEPT !.nodes[m].left = r.n], n |-> m]
        ELSE IF cmp = "Greater"
        THEN LET r == TstPut(t1, t1.nodes[m].right, w, i)
             IN  [t |-> [r.t EXCEPT !.nodes[m].right = r.n], n |-> m]
        ELSE IF i < Len(w)
        THEN LET r == TstPut(t1, t1.nodes[m].mid, w, i + 1)
             IN  [t |-> [r.t EXCEPT !.nodes[m].mid = r.n], n |-> m]
        ELSE [t |-> [t1 EXCEPT !.nodes[m].value = TRUE,
                               !.count = IF t1.nodes[m].value THEN @ ELSE @ + 1],
              n |-> m]

\* Tst::insert(key, ())
TstInsert(t, w) ==
    LET r == TstPut(t, t.root, w, 1) IN [r.t EXCEPT !.root = r.n]

\* the node the descent for w[i..] from child link n ends at, 0 when it falls off
RECURSIVE TstDescend(_, _, _, _)
TstDescend(t, n, w, i) ==
    IF n = 0 \/ i > Len(w) THEN 0
    ELSE LET cmp == TstCmpChar(t, w[i], t.nodes[n].key)
         IN  IF cmp = "Less" THEN TstDescend(t, t.nodes[n].left, w, i)
             ELSE IF cmp = "Greater" THEN TstDescend(t, t.nodes[n].right, w, i)
             ELSE IF i < Len(w) THEN TstDescend(t, t.nodes[n].mid, w, i + 1)
             ELSE n

\* Tst::get(key): Option<&()>, <<>> is None
TstGet(t, w) ==
    LET n == TstDescend(t, t.root, w, 1)
    IN  IF n # 0 /\ t.nodes[n].value THEN <<TRUE>> ELSE <<>>

\* Tst::len()
TstLen(t) == t.count

(***************************************************************************)
(* TernaryTreeDictionary and WordListDictionary.                           *)
(***************************************************************************)
\* mutant of TreeCaseSensitive: the test of the comparator inverted
TreeCaseSensitiveInverted(cs) == get_comparator(cs, <<65>>, <<97>>) = "Equal"

\* with_wordlist_and_median: the tree's policy comes from the list's comparator
TreeCaseSensitive(cs) == get_comparator(cs, <<65>>, <<97>>) # "Equal"

\* Dictionary::search of TernaryTreeDictionary
TernarySearch(t, w) == TstGet(t, w) # <<>>

\* mutant of TernaryLen: the nodes counted instead of the words
TernaryLenNodes(t) == Len(t.nodes)

\* Dictionary::len of TernaryTreeDictionary
TernaryLen(t) == TstLen(t)

\* mutant of TernaryInsert: the first word of the list is skipped
TernaryInsertSkipFirst ==
    /\ pc = "build"
    /\ iter < Len(words)
    /\ tree' = IF iter = 0 THEN tree ELSE TstInsert(tree, words[iter + 1])
    /\ iter' = iter + 1
    /\ UNCHANGED <<pc, words, case_sensitive, word, left, right, size, ret, tst_ret,
                   scanVars, restVars>>

\* mutant of TernaryInsert: only the first character of the word is inserted
TernaryInsertFirstChar ==
    /\ pc = "build"
    /\ iter < Len(words)
    /\ tree' = TstInsert(tree, SubSeq(words[iter + 1], 1, 1))
    /\ iter' = iter + 1
    /\ UNCHANGED <<pc, words, case_sensitive, word, left, right, size, ret, tst_ret,
                   scanVars, restVars>>

\* one iteration of the loop of with_wordlist_and_median: tst.insert(y, ())
TernaryInsert ==
    /\ pc = "build"
    /\ iter < Len(words)
    /\ tree' = TstInsert(tree, words[iter + 1])
    /\ iter' = iter + 1
    /\ UNCHANGED <<pc, words, case_sensitive, word, left, right, size, ret, tst_ret,
                   scanVars, restVars>>

\* the loop of with_wordlist_and_median ends: the dictionary is built
TernaryBuilt ==
    /\ pc = "build"
    /\ iter = Len(words)
    /\ pc' = "ready"
    /\ UNCHANGED <<dictVars, scanVars, restVars>>

\* Dictionary::search(word) on both dictionaries over the same word list: the tree
\* answers at once, WordListDictionary enters binary_search
Search(q) ==
    /\ pc = "ready"
    /\ word' = q
    /\ tst_ret' = <<TernarySearch(tree, q)>>
    /\ size' = Len(words)
    /\ left' = 0
    /\ right' = Len(words)
    /\ pc' = "search"
    /\ UNCHANGED <<words, case_sensitive, ret, tree, iter, scanVars, restVars>>

\* Dictionary::search of WordListDictionary, once binary_search has returned
WordListSearch == ret # <<>>

(***************************************************************************)
(* Specifications of the dictionary side.  The scanner's variables rest.   *)
(***************************************************************************)
ScanIdle ==
    /\ password = <<>>
    /\ sequences = <<>>
    /\ length = 0
    /\ wrap = FALSE
    /\ report_all = FALSE
    /\ cs_index = 0
    /\ char_index = 0
    /\ direction = 0
    /\ prev_position = -1
    /\ match_builder = <<>>
    /\ result = <<>>
    /\ calls = 0
    /\ prev_results = <<>>

Keys == StringsUpTo(MaxKeyLen)

\* word lists handed to binary_search: the sorted ones, and short unsorted ones
\* (ArrayWordList::new takes the caller's order as it is)
SearchLists(cs) ==
    {ws \in ListsUpTo(Keys, MaxListLen) : IsSorted(ws, cs)}
        \cup ListsUpTo(Keys, MaxUnsortedLen)

\* binary_search(word_list, word) at its loop head, after lines 78..80
InitSearch ==
    /\ pc = "search"
    /\ case_sensitive \in BOOLEAN
    /\ words \in SearchLists(case_sensitive)
    /\ word \in Keys
    /\ size = Len(words)
    /\ left = 0
    /\ right = Len(words)
    /\ ret = <<>>
    /\ tree = TstNew(TreeCaseSensitive(case_sensitive))
    /\ iter = 0
    /\ tst_ret = <<>>
    /\ ScanIdle
    /\ RestIdle

NextSearch == BsProbe \/ BsNone

SpecSearch == InitSearch /\ [][NextSearch]_vars

\* "", "A", "a", "b"
BisectWords == {<<>>, <<65>>, <<97>>, <<98>>}

\* binary_search at its loop head on any list, sorted or not: ArrayWordList::new
\* takes the caller's order as it is
InitBisect ==
    /\ pc = "search"
    /\ case_sensitive \in BOOLEAN
    /\ words \in ListsUpTo(BisectWords, MaxBisectLen)
    /\ word \in BisectWords
    /\ size = Len(words)
    /\ left = 0
    /\ right = Len(words)
    /\ ret = <<>>
    /\ tree = TstNew(TreeCaseSensitive(case_sensitive))
    /\ iter = 0
    /\ tst_ret = <<>>
    /\ ScanIdle
    /\ RestIdle

SpecBisect == InitBisect /\ [][NextSearch]_vars

\* binary_search is sequential code: a loop iteration that can run does run
SpecBisectFair == SpecBisect /\ WF_vars(NextSearch)

\* the lists of non-empty words with at most n characters in all
RECURSIVE ListsOfTotal(_)
ListsOfTotal(n) ==
    {<<>>} \cup UNION {{<<w>> \o rest : w \in [1..k -> Alphabet], rest \in ListsOfTotal(n - k)} :
                       k \in 1..n}

Queries == StringsUpTo(MaxQueryLen)

\* TernaryTreeDictionary::with_wordlist(wordlist) at the head of its insert loop,
\* WordListDictionary::new(wordlist) beside it
InitDict ==
    /\ pc = "build"
    /\ case_sensitive \in BOOLEAN
    /\ words \in ListsOfTotal(MaxChars)
    /\ word = <<>>
    /\ size = 0
    /\ left = 0
    /\ right = 0
    /\ ret = <<>>
    /\ tree = TstNew(TreeCaseSensitive(case_sensitive))
    /\ iter = 0
    /\ tst_ret = <<>>
    /\ ScanIdle
    /\ RestIdle

NextDict ==
    \/ TernaryInsert
    \/ TernaryBuilt
    \/ \E q \in Queries : Search(q)
    \/ BsProbe
    \/ BsNone

SpecDict == InitDict /\ [][NextDict]_vars

(***************************************************************************)
(* Claims about the dictionaries.                                          *)
(***************************************************************************)
Range(f) == {f[i] : i \in DOMAIN f}

\* the entries of the list that compare Equal to the search term
EqualEntries == {i \in 0..(Len(words) - 1) :
                    get_comparator(case_sensitive, words[i + 1], word) = "Equal"}

\* a word as the case policy of the list sees it
Fold(w) == IF case_sensitive THEN w ELSE to_lowercase(w)

IsProperPrefix(a, b) == Len(a) < Len(b) /\ SubSeq(b, 1, Len(a)) = a

\* C1: on a list sorted under its own comparator, binary_search returns Some(i) with
\* words[i] comparing Equal to the target whenever some entry compares Equal, and
\* None exactly when no entry compares Equal.
C1_BinarySearchCorrect ==
    (pc = "done" /\ IsSorted(words, case_sensitive)) =>
        /\ (ret = <<>>) <=> (EqualEntries = {})
        /\ ret # <<>> => ret[1] \in EqualEntries

\* C1 witness: a case-insensitive sorted list of three or more words where the hit
\* differs from the target in case and is not the only Equal entry
C1_Witness ==
    /\ pc = "done"
    /\ IsSorted(words, case_sensitive)
    /\ ~case_sensitive
    /\ Len(words) >= 3
    /\ ret # <<>>
    /\ words[ret[1] + 1] # word
    /\ Cardinality(EqualEntries) >= 2

C3_SearchRejectsAbsent ==
    (pc \in {"search", "done"} /\ Fold(word) \notin {Fold(w) : w \in Range(words)}) =>
        tst_ret = <<FALSE>>

\* C3 witness: the term is a non-empty proper prefix of an inserted word, so the
\* descent ends at a node of the tree, one of two words, and the term is rejected
C3_Witness ==
    /\ pc = "done"
    /\ Len(words) = 2
    /\ word # <<>>
    /\ Fold(word) \notin {Fold(w) : w \in Range(words)}
    /\ \E w \in Range(words) : IsProperPrefix(Fold(word), Fold(w))
    /\ TstDescend(tree, tree.root, word, 1) # 0
    /\ tst_ret = <<FALSE>>

\* C4: a case-sensitive dictionary matches q only if q with its exact casing is a
\* word of the list; a case-insensitive one matches every q whose folded form is the
\* folded form of a listed word.  Both for the tree, whose policy comes from the
\* list's comparator, and for WordListDictionary over a list sorted under its
\* comparator.
C4_CasePolicy ==
    pc = "done" =>
        /\ case_sensitive =>
              /\ tst_ret = <<TRUE>> => word \in Range(words)
              /\ WordListSearch => word \in Range(words)
        /\ (~case_sensitive
              /\ to_lowercase(word) \in {to_lowercase(w) : w \in Range(words)}) =>
              /\ tst_ret = <<TRUE>>
              /\ IsSorted(words, case_sensitive) => WordListSearch

\* C4 witness: a case-insensitive sorted list matched by a term that is in the list
\* only up to case, by both dictionaries
C4_Witness ==
    /\ pc = "done"
    /\ ~case_sensitive
    /\ IsSorted(words, case_sensitive)
    /\ Len(words) >= 2
    /\ word \notin Range(words)
    /\ tst_ret = <<TRUE>>
    /\ WordListSearch

\* C5: after any sequence of inserts len() is the number of distinct words inserted
\* under the tree's case policy; a duplicate leaves it unchanged.
C5_LenCountsDistinct ==
    pc \in {"build", "ready"} =>
        TernaryLen(tree) = Cardinality({Fold(words[i]) : i \in 1..iter})

\* C5 witness: a case-insensitive tree after three inserts, two of them the same
\* word up to case, with len() = 2
C5_Witness ==
    /\ pc = "build"
    /\ ~case_sensitive
    /\ iter = 3
    /\ words[1] # words[3]
    /\ to_lowercase(words[1]) = to_lowercase(words[3])
    /\ TernaryLen(tree) = 2

(***************************************************************************)
(* CharacterSequence and the catalogs of sequence_data.rs.  A              *)
(* CharacterSequence is the sequence of its forms.                         *)
(***************************************************************************)
\* mutant of chars_count: str::len, the length of the UTF-8 encoding in bytes
RECURSIVE bytes_len(_)
bytes_len(s) ==
    IF s = <<>> THEN 0
    ELSE (IF Head(s) < 128 THEN 1 ELSE IF Head(s) < 2048 THEN 2
          ELSE IF Head(s) < 65536 THEN 3 ELSE 4) + bytes_len(Tail(s))

\* s.chars().count(): the number of code points
chars_count(s) == Len(s)

\* CharacterSequence::new(strings): the Result, forms being the value of Ok
CharacterSequenceNew(strings) ==
    IF strings = <<>>
    THEN [ok |-> FALSE, err |-> "At least one sequence must be defined", forms |-> <<>>]
    ELSE IF ~ \A i \in 1..Len(strings) : chars_count(strings[i]) = chars_count(strings[1])
    THEN [ok |-> FALSE, err |-> "Strings have unequal length", forms |-> <<>>]
    ELSE [ok |-> TRUE, err |-> "", forms |-> strings]

\* CharacterSequence::length
cs_length(cs) == Len(cs[1])

\* mutant of matches: only the first form is compared
matches_first_form(cs, index, c) == cs[1][index + 1] = c

\* CharacterSequence::matches(index, c)
matches(cs, index, c) == \E f \in 1..Len(cs) : cs[f][index + 1] = c

\* index_of(sequence, c): the first matching index, -1 when there is none
index_of(cs, c) ==
    LET hits == {i \in 0..(cs_length(cs) - 1) : matches(cs, i, c)}
    IN  IF hits = {} THEN -1 ELSE Min(hits)

\* EnglishSequenceData::Alphabetical
Alphabetical == << << [i \in 1..26 |-> 96 + i], [i \in 1..26 |-> 64 + i] >> >>

\* EnglishSequenceData::Numerical
Numerical == << << [i \in 1..10 |-> 47 + i] >> >>

\* EnglishSequenceData::USQwerty
USQwerty ==
    <<
       <<<<96, 49, 50, 51, 52, 53, 54, 55, 56, 57, 48, 45, 61>>,
         <<126, 33, 64, 35, 36, 37, 94, 38, 42, 40, 41, 95, 43>>,
         <<0, 161, 8482, 163, 162, 8734, 167, 182, 8226, 170, 186, 8211, 8800>>,
         <<96, 8260, 8364, 8249, 8250, 64257, 64258, 8225, 176, 183, 8218, 8212, 177>>>>,
       <<<<113, 119, 101, 114, 116, 121, 117, 105, 111, 112, 91, 93, 92>>,
         <<81, 87, 69, 82, 84, 89, 85, 73, 79, 80, 123, 125, 124>>,
         <<339, 8721, 0, 174, 8224, 165, 0, 0, 248, 960, 8220, 8216, 171>>,
         <<338, 8222, 180, 8240, 711, 193, 168, 710, 216, 8719, 8221, 8217, 187>>>>,
       <<<<97, 115, 100, 102, 103, 104, 106, 107, 108, 59, 39>>,
         <<65, 83, 68, 70, 71, 72, 74, 75, 76, 58, 34>>,
         <<229, 223, 8706, 402, 169, 729, 8710, 730, 172, 8230, 230>>,
         <<197, 205, 206, 207, 733, 211, 212, 63743, 210, 218, 198>>>>,
       <<<<122, 120, 99, 118, 98, 110, 109, 44, 46, 47>>,
         <<90, 88, 67, 86, 66, 78, 77, 60, 62, 63>>,
         <<57, 8776, 231, 8730, 8747, 0, 181, 8804, 8805, 247>>,
         <<184, 731, 199, 9674, 305, 732, 194, 175, 728, 191>>>>
    >>

\* a SequenceData of a caller: "abc"/"ABC", then "zcb", which shares b and c with it
TwoRows == << << <<97, 98, 99>>, <<65, 66, 67>> >>, << <<122, 99, 98>> >> >>

(***************************************************************************)
(* IllegalSequenceRule::validate, one character of the inner loop per step.*)
(***************************************************************************)
\* the sentinel '\u{ffff}' appended to the password
Sentinel == 65535

\* mutant of Text: the password is scanned without the sentinel
TextNoSentinel == password

\* format!("{}{}", password, '\u{ffff}')
Text == Append(password, Sentinel)

Sign(d) == IF d > 0 THEN 1 ELSE IF d < 0 THEN -1 ELSE 0

\* lines 64..68: the difference of the positions, 0 when either is not in the sequence
RawDiff(position, prev) == IF position < 0 \/ prev < 0 THEN 0 ELSE position - prev

\* mutant of WrapDiff: the fold is applied whether wrap is set or not
WrapDiffAlways(diff, len, wr) ==
    IF diff = len - 1 \/ diff = 1 - len THEN diff - Sign(diff) * len ELSE diff

\* lines 69..71: a jump between the ends is folded to a unit step when wrap is set
WrapDiff(diff, len, wr) ==
    IF wr /\ (diff = len - 1 \/ diff = 1 - len) THEN diff - Sign(diff) * len ELSE diff

\* mutant of RunEnded: a run of exactly the minimum length is not long enough
RunEndedStrict(diff, dir, builder, l) == diff # dir /\ Len(builder) > l

\* line 73: the run in match_builder has ended and is long enough
RunEnded(diff, dir, builder, l) == diff # dir /\ Len(builder) >= l

\* mutant of add_error: every match is recorded, report_all or not
add_error_always(res, match_str, all) == Append(res, match_str)

\* add_error: records the match when report_all is set or nothing is recorded yet
add_error(res, match_str, all) ==
    IF all \/ res = <<>> THEN Append(res, match_str) ELSE res

\* mutant of KeptRun: a reversal empties match_builder, the pivot is dropped
KeptRunNoPivot(diff, dir, builder) ==
    IF diff = 1 \/ diff = -1
    THEN IF diff # dir THEN <<>> ELSE builder
    ELSE <<>>

\* mutant of KeptRun: match_builder is not cleared when the run is broken
KeptRunNoClear(diff, dir, builder) ==
    IF diff = 1 \/ diff = -1
    THEN IF diff # dir THEN <<builder[Len(builder)]>> ELSE builder
    ELSE builder

\* lines 78..86: what is kept of match_builder before c is pushed
KeptRun(diff, dir, builder) ==
    IF diff = 1 \/ diff = -1
    THEN IF diff # dir THEN <<builder[Len(builder)]>> ELSE builder
    ELSE <<>>

\* mutant of NextDirection: a broken run leaves the direction as it was
NextDirectionKept(diff, dir) == IF diff = 1 \/ diff = -1 THEN diff ELSE dir

\* lines 78..86: the new direction
NextDirection(diff, dir) == IF diff = 1 \/ diff = -1 THEN diff ELSE 0

\* the outer loop takes the next CharacterSequence: lines 57..60
ScanSequence ==
    /\ pc = "outer"
    /\ cs_index < Len(sequences)
    /\ direction' = 0
    /\ prev_position' = -1
    /\ char_index' = 0
    /\ pc' = "inner"
    /\ UNCHANGED <<dictVars, restVars, callVars, password, sequences, length, wrap,
                   report_all, cs_index, match_builder, result>>

\* the scan state of validate as a record
ScanState == [direction |-> direction, prev_position |-> prev_position,
              match_builder |-> match_builder, result |-> result]

\* mutant of ScanStep: c is not pushed to match_builder
ScanStepNoPush(st, cs, c, l, wr, all) ==
    LET position == index_of(cs, c)
        diff == WrapDiff(RawDiff(position, st.prev_position), cs_length(cs), wr)
    IN  [direction |-> NextDirection(diff, st.direction),
         prev_position |-> position,
         match_builder |-> IF st.match_builder = <<>> THEN <<>>
                           ELSE KeptRun(diff, st.direction, st.match_builder),
         result |-> IF RunEnded(diff, st.direction, st.match_builder, l)
                    THEN add_error(st.result, st.match_builder, all)
                    ELSE st.result]

\* the body of the inner loop, lines 62..88, for character c of sequence cs
ScanStep(st, cs, c, l, wr, all) ==
    LET position == index_of(cs, c)
        diff == WrapDiff(RawDiff(position, st.prev_position), cs_length(cs), wr)
    IN  [direction |-> NextDirection(diff, st.direction),
         prev_position |-> position,
         match_builder |-> Append(KeptRun(diff, st.direction, st.match_builder), c),
         result |-> IF RunEnded(diff, st.direction, st.match_builder, l)
                    THEN add_error(st.result, st.match_builder, all)
                    ELSE st.result]

\* line 80 calls last().unwrap(): it fails on an empty match_builder
UnwrapFails(st, cs, c, wr) ==
    LET diff == WrapDiff(RawDiff(index_of(cs, c), st.prev_position), cs_length(cs), wr)
    IN  (diff = 1 \/ diff = -1) /\ diff # st.direction /\ st.match_builder = <<>>

\* the body of the inner loop for the character at char_index: lines 61..89
ScanChar ==
    /\ pc = "inner"
    /\ char_index < Len(Text)
    /\ LET cs == sequences[cs_index + 1]
           c == Text[char_index + 1]
       IN  IF UnwrapFails(ScanState, cs, c, wrap)
           THEN /\ pc' = "panic"
                /\ UNCHANGED <<char_index, direction, prev_position, match_builder, result>>
           ELSE LET n == ScanStep(ScanState, cs, c, length, wrap, report_all)
                IN  /\ direction' = n.direction
                    /\ prev_position' = n.prev_position
                    /\ match_builder' = n.match_builder
                    /\ result' = n.result
                    /\ char_index' = char_index + 1
                    /\ pc' = pc
    /\ UNCHANGED <<dictVars, restVars, callVars, password, sequences, length, wrap,
                   report_all, cs_index>>

\* the inner loop is exhausted: on to the next CharacterSequence
ScanSequenceEnd ==
    /\ pc = "inner"
    /\ char_index = Len(Text)
    /\ cs_index' = cs_index + 1
    /\ pc' = "outer"
    /\ UNCHANGED <<dictVars, restVars, callVars, password, sequences, length, wrap,
                   report_all, char_index, direction, prev_position, match_builder,
                   result>>

\* the outer loop is exhausted: validate returns result
ScanReturn ==
    /\ pc = "outer"
    /\ cs_index = Len(sequences)
    /\ pc' = "returned"
    /\ UNCHANGED <<dictVars, scanVars, restVars>>

(***************************************************************************)
(* Specification of the scanner.  The dictionary's variables rest.         *)
(***************************************************************************)
DictIdle ==
    /\ words = <<>>
    /\ case_sensitive = FALSE
    /\ word = <<>>
    /\ size = 0
    /\ left = 0
    /\ right = 0
    /\ ret = <<>>
    /\ tree = TstNew(FALSE)
    /\ iter = 0
    /\ tst_ret = <<>>

\* 'a', 'b', 'c', 'z', 'B', '#'
PwChars == {97, 98, 99, 122, 66, 35}

Passwords == UNION {[1..k -> PwChars] : k \in 0..MaxPwLen}

\* the passwords of tests::test_passwords and tests::test_messages used below, with
\* the catalog and the length of their rule
TestCases ==
    { [pw |-> <<112, 113, 119, 101, 114, 116, 121, 35, 110, 54, 53>>,
       data |-> USQwerty, len |-> 6],                        \* "pqwerty#n65"
      [pw |-> <<113, 119, 101, 114, 116, 121, 116, 114, 101, 119, 113>>,
       data |-> USQwerty, len |-> 6],                        \* "qwertytrewq"
      [pw |-> <<112, 113, 119, 101, 114, 116, 121, 117, 105, 35, 110, 54, 53>>,
       data |-> USQwerty, len |-> 6],                        \* "pqwertyui#n65"
      [pw |-> <<112, 107, 108, 59, 39, 97, 115, 100, 54, 53>>,
       data |-> USQwerty, len |-> 5],                        \* "pkl;'asd65"
      [pw |-> <<121, 122, 97>>,
       data |-> Alphabetical, len |-> 3],                    \* "yza"
      [pw |-> <<112, 52, 122, 82, 99, 118, 50, 35, 110, 56, 57, 48, 49, 50, 51, 52>>,
       data |-> Numerical, len |-> 7] }                      \* "p4zRcv2#n8901234"

\* longer passwords: "abab", "ab#ab", "abcba", "zabcz", "bzcbz", "cbazy"
LongPasswords ==
    { <<97, 98, 97, 98>>, <<97, 98, 35, 97, 98>>, <<97, 98, 99, 98, 97>>,
      <<122, 97, 98, 99, 122>>, <<98, 122, 99, 98, 122>>, <<99, 98, 97, 122, 121>> }

\* rule.validate(password_data) before the outer loop: lines 54..56
InitScan ==
    /\ pc = "outer"
    /\ \/ /\ password \in Passwords \cup LongPasswords
          /\ sequences \in {Alphabetical, TwoRows}
          /\ length \in 0..MaxL
       \/ \E t \in TestCases :
             /\ password = t.pw
             /\ sequences = t.data
             /\ length = t.len
    /\ wrap \in BOOLEAN
    /\ report_all \in BOOLEAN
    /\ cs_index = 0
    /\ char_index = 0
    /\ direction = 0
    /\ prev_position = -1
    /\ match_builder = <<>>
    /\ result = <<>>
    /\ calls = 1
    /\ prev_results = <<>>
    /\ DictIdle
    /\ RestIdle

NextScan == ScanSequence \/ ScanChar \/ ScanSequenceEnd \/ ScanReturn

SpecScan == InitScan /\ [][NextScan]_vars

(***************************************************************************)
(* A rule whose validate is called more than once, over catalogs with      *)
(* no sequence, with empty, one-key and two-key sequences, and over        *)
(* passwords that mix the forms of a sequence.                             *)
(***************************************************************************)
\* mutant of ScanAgain: the details of the earlier call are still in result
ScanAgainKeepsResult ==
    /\ pc = "returned"
    /\ calls < MaxCalls
    /\ calls' = calls + 1
    /\ prev_results' = Append(prev_results, result)
    /\ match_builder' = <<>>
    /\ cs_index' = 0
    /\ pc' = "outer"
    /\ UNCHANGED <<dictVars, restVars, password, sequences, length, wrap, report_all,
                   char_index, direction, prev_position, result>>

\* validate is called again on the same rule and password: the locals of lines
\* 54..56 are created anew, the fields of the rule and the password are as they were
ScanAgain ==
    /\ pc = "returned"
    /\ calls < MaxCalls
    /\ calls' = calls + 1
    /\ prev_results' = Append(prev_results, result)
    /\ result' = <<>>
    /\ match_builder' = <<>>
    /\ cs_index' = 0
    /\ pc' = "outer"
    /\ UNCHANGED <<dictVars, restVars, password, sequences, length, wrap, report_all,
                   char_index, direction, prev_position>>

\* a SequenceData without sequences
NoSequences == <<>>

\* a SequenceData of sequences of no, one and two keys, two forms each
ShortRows ==
    << << <<>>, <<>> >>, << <<97>>, <<65>> >>, << <<97, 98>>, <<65, 66>> >> >>

\* 'a', 'b', 'B'
RuleChars == {97, 98, 66}

RulePasswords == UNION {[1..k -> RuleChars] : k \in 0..MaxPwLen}

\* passwords of tests::test_passwords that mix the forms of a row of USQwerty
FormTestCases ==
    { [pw |-> <<112, 75, 172, 59, 230, 65, 35, 110, 54, 53>>,
       data |-> USQwerty, len |-> 5],                        \* "pK\u{ac};\u{e6}A#n65"
      [pw |-> <<112, 81, 8721, 101, 82, 8224, 121, 35, 110, 54, 53>>,
       data |-> USQwerty, len |-> 6] }                       \* "pQ\u{2211}eR\u{2020}y#n65"

InitRule ==
    /\ pc = "outer"
    /\ \/ /\ password \in RulePasswords
          /\ sequences \in {NoSequences, ShortRows, TwoRows}
          /\ length \in 0..MaxL
       \/ \E t \in FormTestCases :
             /\ password = t.pw
             /\ sequences = t.data
             /\ length = t.len
    /\ wrap \in BOOLEAN
    /\ report_all \in BOOLEAN
    /\ cs_index = 0
    /\ char_index = 0
    /\ direction = 0
    /\ prev_position = -1
    /\ match_builder = <<>>
    /\ result = <<>>
    /\ calls = 1
    /\ prev_results = <<>>
    /\ DictIdle
    /\ RestIdle

NextRule == NextScan \/ ScanAgain

SpecRule == InitRule /\ [][NextRule]_vars

(***************************************************************************)
(* Specification of CharacterSequence::new.                                *)
(***************************************************************************)
\* 'a' and U+00E9, one and two bytes of UTF-8
FormChars == {97, 233}

FormStrings == UNION {[1..k -> FormChars] : k \in 0..MaxFormLen}

\* the caller passes strings and takes the Result
New ==
    /\ pc = "new"
    /\ new_ret' = <<CharacterSequenceNew(forms)>>
    /\ pc' = "newed"
    /\ UNCHANGED <<dictVars, scanVars, forms, sorter, list, pvVars, moreVars>>

InitNew ==
    /\ pc = "new"
    /\ forms \in ListsUpTo(FormStrings, MaxForms)
    /\ new_ret = <<>>
    /\ SortIdle
    /\ ValidatorIdle
    /\ MoreIdle
    /\ DictIdle
    /\ ScanIdle

NextNew == New

SpecNew == InitNew /\ [][NextNew]_vars

(***************************************************************************)
(* The sorters of sort.rs.  An array is the sequence of its words, read    *)
(* at a[i + 1] for the index i of the code; compare is the comparator of   *)
(* the word list, chosen by cs.  A sorter returns its outcome: the sorted  *)
(* array, or the panic it ends in.                                         *)
(***************************************************************************)
Swap(a, i, j) == [a EXCEPT ![i + 1] = a[j + 1], ![j + 1] = a[i + 1]]

Sorted(a) == [ok |-> TRUE, array |-> a, err |-> ""]

Panic(a, msg) == [ok |-> FALSE, array |-> a, err |-> msg]

\* BubbleSort, line 26: for j in 0..lim
RECURSIVE BubbleInner(_, _, _, _)
BubbleInner(a, cs, j, lim) ==
    IF j >= lim THEN a
    ELSE BubbleInner(IF get_comparator(cs, a[j + 1], a[j + 2]) = "Greater"
                     THEN Swap(a, j, j + 1) ELSE a,
                     cs, j + 1, lim)

\* mutant of BubbleOuter: the last pass is left out
RECURSIVE BubbleOuterShort(_, _, _, _)
BubbleOuterShort(a, cs, i, n) ==
    IF i >= n - 2 THEN a
    ELSE BubbleOuterShort(BubbleInner(a, cs, 0, n - 1 - i), cs, i + 1, n)

\* BubbleSort, line 25: for i in 0..(n - 1)
RECURSIVE BubbleOuter(_, _, _, _)
BubbleOuter(a, cs, i, n) ==
    IF i >= n - 1 THEN a
    ELSE BubbleOuter(BubbleInner(a, cs, 0, n - 1 - i), cs, i + 1, n)

\* BubbleSort::sort_with_comparator.  On an empty array n - 1 overflows usize: a
\* build that checks overflow panics there, one that wraps enters both loops with
\* i = 0, j = 0 and panics reading array[0]
BubbleSort(a, cs, overflow_checks) ==
    IF Len(a) = 0
    THEN IF overflow_checks THEN Panic(a, "attempt to subtract with overflow")
         ELSE Panic(a, "index out of bounds")
    ELSE Sorted(BubbleOuter(a, cs, 0, Len(a)))

\* BubbleSortOptimized, lines 48..56: one pass, <<array, new_len>>
RECURSIVE BubblePass(_, _, _, _, _)
BubblePass(a, cs, i, len, new_len) ==
    IF i >= len THEN <<a, new_len>>
    ELSE IF get_comparator(cs, a[i], a[i + 1]) = "Greater"
         THEN BubblePass(Swap(a, i - 1, i), cs, i + 1, len, i)
         ELSE BubblePass(a, cs, i + 1, len, new_len)

\* BubbleSortOptimized, lines 47..61: the loop
RECURSIVE BubbleLoop(_, _, _)
BubbleLoop(a, cs, len) ==
    LET r == BubblePass(a, cs, 1, len, 0)
    IN  IF r[2] = 0 THEN r[1] ELSE BubbleLoop(r[1], cs, r[2])

\* BubbleSortOptimized::sort_with_comparator
BubbleSortOptimized(a, cs) == Sorted(BubbleLoop(a, cs, Len(a)))

\* SliceSort: where sort_by, a stable sort, puts x among the sorted words before it
SliceInsert(sorted, cs, x) ==
    LET k == Cardinality({i \in 1..Len(sorted) :
                             get_comparator(cs, sorted[i], x) # "Greater"})
    IN  SubSeq(sorted, 1, k) \o <<x>> \o SubSeq(sorted, k + 1, Len(sorted))

RECURSIVE SliceSortBy(_, _, _, _)
SliceSortBy(sorted, a, cs, i) ==
    IF i > Len(a) THEN sorted
    ELSE SliceSortBy(SliceInsert(sorted, cs, a[i]), a, cs, i + 1)

\* SliceSort::sort_with_comparator: array.sort_by(compare)
SliceSort(a, cs) == Sorted(SliceSortBy(<<>>, a, cs, 1))

\* mutant of InsertionWhile: a word moves down past the words it is greater than
RECURSIVE InsertionWhileGreater(_, _, _)
InsertionWhileGreater(a, cs, j) ==
    IF j > 0 /\ get_comparator(cs, a[j + 1], a[j]) = "Greater"
    THEN InsertionWhileGreater(Swap(a, j, j - 1), cs, j - 1)
    ELSE a

\* InsertionSort, lines 92..95: the while loop
RECURSIVE InsertionWhile(_, _, _)
InsertionWhile(a, cs, j) ==
    IF j > 0 /\ get_comparator(cs, a[j + 1], a[j]) = "Less"
    THEN InsertionWhile(Swap(a, j, j - 1), cs, j - 1)
    ELSE a

\* InsertionSort, line 90: for i in 1..array.len()
RECURSIVE InsertionFor(_, _, _)
InsertionFor(a, cs, i) ==
    IF i >= Len(a) THEN a
    ELSE InsertionFor(InsertionWhile(a, cs, i), cs, i + 1)

\* InsertionSort::sort_with_comparator
InsertionSort(a, cs) == Sorted(InsertionFor(a, cs, 1))

\* QuickSort partition, lines 116..118
RECURSIVE StoreUp(_, _, _, _)
StoreUp(arr, cs, store_index, pivot) ==
    IF get_comparator(cs, arr[store_index + 1], arr[pivot + 1]) = "Less"
    THEN StoreUp(arr, cs, store_index + 1, pivot)
    ELSE store_index

\* QuickSort partition, lines 121..123
RECURSIVE LastDown(_, _, _, _)
LastDown(arr, cs, last_index, pivot) ==
    IF last_index >= 0 /\ get_comparator(cs, arr[last_index + 1], arr[pivot + 1]) = "Greater"
    THEN LastDown(arr, cs, last_index - 1, pivot)
    ELSE last_index

\* QuickSort partition, lines 113..131: the loop and the final swap, <<arr, store_index>>
RECURSIVE PartitionLoop(_, _, _, _, _)
PartitionLoop(arr, cs, store_index, last_index, pivot) ==
    LET si == StoreUp(arr, cs, store_index + 1, pivot)
        li == LastDown(arr, cs, last_index - 1, pivot)
    IN  IF si >= li THEN <<Swap(arr, si, pivot), si>>
        ELSE PartitionLoop(Swap(arr, si, li), cs, si, li, pivot)

\* QuickSort: partition(arr, low, high, compare)
partition(arr, cs, low, high) == PartitionLoop(arr, cs, low - 1, high, high)

\* QuickSort: _quick_sort(arr, low, high, compare)
RECURSIVE quick_sort(_, _, _, _)
quick_sort(arr, cs, low, high) ==
    IF low < high
    THEN LET r == partition(arr, cs, low, high)
         IN  quick_sort(quick_sort(r[1], cs, low, r[2] - 1), cs, r[2] + 1, high)
    ELSE arr

\* QuickSort::sort_with_comparator.  On an empty array len - 1 overflows usize: a
\* build that checks overflow panics, one that wraps casts usize::MAX to the isize -1
QuickSort(a, cs, overflow_checks) ==
    IF Len(a) = 0
    THEN IF overflow_checks THEN Panic(a, "attempt to subtract with overflow")
         ELSE Sorted(quick_sort(a, cs, 0, -1))
    ELSE Sorted(quick_sort(a, cs, 0, Len(a) - 1))

\* SelectionSort, lines 157..161: for j in i + 1..n
RECURSIVE SelectMin(_, _, _, _, _)
SelectMin(a, cs, j, n, min) ==
    IF j >= n THEN min
    ELSE SelectMin(a, cs, j + 1, n,
                   IF get_comparator(cs, a[j + 1], a[min + 1]) = "Less" THEN j ELSE min)

\* SelectionSort, line 155: for i in 0..n - 1
RECURSIVE SelectFor(_, _, _, _)
SelectFor(a, cs, i, n) ==
    IF i >= n - 1 THEN a
    ELSE SelectFor(Swap(a, SelectMin(a, cs, i + 1, n, i), i), cs, i + 1, n)

\* SelectionSort::sort_with_comparator.  On an empty array n - 1 overflows usize: a
\* build that checks overflow panics there, one that wraps enters the loop with
\* i = 0, finds 1..0 empty and panics in array.swap(0, 0)
SelectionSort(a, cs, overflow_checks) ==
    IF Len(a) = 0
    THEN IF overflow_checks THEN Panic(a, "attempt to subtract with overflow")
         ELSE Panic(a, "index out of bounds")
    ELSE Sorted(SelectFor(a, cs, 0, Len(a)))

Sorters == {"BubbleSort", "BubbleSortOptimized", "InsertionSort", "SelectionSort",
            "QuickSort", "SliceSort"}

\* sort.sort_with_comparator(&mut words[..], comparator) for the sorter named
sort_with_comparator(name, a, cs, overflow_checks) ==
    CASE name = "BubbleSort" -> BubbleSort(a, cs, overflow_checks)
      [] name = "BubbleSortOptimized" -> BubbleSortOptimized(a, cs)
      [] name = "InsertionSort" -> InsertionSort(a, cs)
      [] name = "SelectionSort" -> SelectionSort(a, cs, overflow_checks)
      [] name = "QuickSort" -> QuickSort(a, cs, overflow_checks)
      [] name = "SliceSort" -> SliceSort(a, cs)

(***************************************************************************)
(* ArrayWordList::with_sorter.                                             *)
(***************************************************************************)
\* mutant of with_sorter: without a sorter the words are sorted by SliceSort
with_sorter_sorts(ws, cs, name, overflow_checks) ==
    sort_with_comparator(IF name = "None" THEN "SliceSort" ELSE name, ws, cs,
                         overflow_checks)

\* ArrayWordList::with_sorter(words, case_sensitive, sorter): the outcome, array
\* being the words of the list
with_sorter(ws, cs, name, overflow_checks) ==
    IF name # "None" THEN sort_with_comparator(name, ws, cs, overflow_checks)
    ELSE Sorted(ws)

\* WordLists::len of the list built
WordListLen(l) == Len(l.array)

\* Index::index of the list built
WordListIndex(l, index) == l.array[index + 1]

\* the caller builds a word list; the build checks integer overflow or wraps
WithSorter ==
    /\ pc = "construct"
    /\ \E overflow_checks \in BOOLEAN :
          /\ list' = <<with_sorter(words, case_sensitive, sorter, overflow_checks)>>
          /\ pc' = IF list'[1].ok THEN "constructed" ELSE "panic"
    /\ UNCHANGED <<dictVars, scanVars, forms, new_ret, sorter, pvVars, moreVars>>

\* "", "a", "A", "b", " a", "a "
SortWords == {<<>>, <<97>>, <<65>>, <<98>>, <<32, 97>>, <<97, 32>>}

InitSort ==
    /\ pc = "construct"
    /\ words \in ListsUpTo(SortWords, MaxSortLen)
    /\ case_sensitive \in BOOLEAN
    /\ sorter \in Sorters \cup {"None"}
    /\ list = <<>>
    /\ word = <<>>
    /\ size = 0
    /\ left = 0
    /\ right = 0
    /\ ret = <<>>
    /\ tree = TstNew(FALSE)
    /\ iter = 0
    /\ tst_ret = <<>>
    /\ ScanIdle
    /\ NewIdle
    /\ ValidatorIdle
    /\ MoreIdle

NextSort == WithSorter

SpecSort == InitSort /\ [][NextSort]_vars

(***************************************************************************)
(* PasswordValidator::validate, one rule of the loop per step.  A rule is  *)
(* any implementation of Rule; what it answers for the password is its     *)
(* RuleResult.  The rules of the crate give every combination of valid and *)
(* details: CharacterCharacteristics answers valid with the details of the *)
(* rules that failed when enough succeeded, and not valid without details  *)
(* when it reports neither failure.                                        *)
(***************************************************************************)
\* RuleResultMetadata::merge: counts.extend(other.counts)
Merge(counts, other) == {e \in counts : ~ \E o \in other : o[1] = e[1]} \cup other

\* mutant of ValidateRule: the details of a valid result are appended too
ValidateRuleAppendsAll ==
    /\ pc = "validating"
    /\ pv_index < Len(rule_results)
    /\ LET rr == rule_results[pv_index + 1]
       IN  pv_result' = [valid |-> pv_result.valid /\ rr.valid,
                         details |-> pv_result.details \o rr.details,
                         metadata |-> Merge(pv_result.metadata, rr.metadata)]
    /\ pv_index' = pv_index + 1
    /\ UNCHANGED <<pc, dictVars, scanVars, forms, new_ret, sorter, list, rule_results,
                   moreVars>>

\* the body of the loop for the next rule: lines 74..79
ValidateRule ==
    /\ pc = "validating"
    /\ pv_index < Len(rule_results)
    /\ LET rr == rule_results[pv_index + 1]
       IN  pv_result' = [valid |-> IF ~rr.valid THEN FALSE ELSE pv_result.valid,
                         details |-> IF ~rr.valid THEN pv_result.details \o rr.details
                                     ELSE pv_result.details,
                         metadata |-> Merge(pv_result.metadata, rr.metadata)]
    /\ pv_index' = pv_index + 1
    /\ UNCHANGED <<pc, dictVars, scanVars, forms, new_ret, sorter, list, rule_results,
                   moreVars>>

\* the loop is exhausted: validate returns result, line 81
ValidateReturn ==
    /\ pc = "validating"
    /\ pv_index = Len(rule_results)
    /\ pc' = "validated"
    /\ UNCHANGED <<dictVars, scanVars, restVars>>

\* no detail, one detail, two details
DetailLists ==
    { <<>>, <<"TOO_SHORT">>, <<"ILLEGAL_ALPHABETICAL_SEQUENCE">>,
      <<"INSUFFICIENT_UPPERCASE", "INSUFFICIENT_DIGIT">> }

\* no count, the count LengthRule gives
Metadatas == { {}, {<<"Length", 11>>} }

RuleResults == [valid : BOOLEAN, details : DetailLists, metadata : Metadatas]

\* validate before the loop, line 72
InitValidator ==
    /\ pc = "validating"
    /\ rule_results \in ListsUpTo(RuleResults, MaxRules)
    /\ pv_index = 0
    /\ pv_result = RuleResultNew(TRUE)
    /\ NewIdle
    /\ SortIdle
    /\ MoreIdle
    /\ DictIdle
    /\ ScanIdle

NextValidator == ValidateRule \/ ValidateReturn

SpecValidator == InitValidator /\ [][NextValidator]_vars

(***************************************************************************)
(* PasswordGenerator::generate_password, one fill_random_char per step.    *)
(* A CharacterRule is its valid characters and its number of characters;   *)
(* the characters the random source picks are chosen freely.               *)
(***************************************************************************)
GenOk(s) == [ok |-> TRUE, password |-> s, err |-> ""]

GenErr(msg) == [ok |-> FALSE, password |-> <<>>, err |-> msg]

\* fill_random_char(source, size, target): the results the random source allows.
\* Uniform::try_from(0..0) is an error
fill_random_char(source, n, tgt) ==
    IF chars_count(source) = 0 THEN {GenErr("empty range")}
    ELSE {GenOk(tgt \o s) : s \in [1..n -> Range(source)]}

\* line 24: len == 0 is refused
GenerateCheck ==
    /\ pc = "generate"
    /\ IF gen_len = 0
       THEN /\ gen_ret' = <<GenErr("length must be greater than 0")>>
            /\ pc' = "generated"
       ELSE /\ gen_ret' = gen_ret
            /\ pc' = "fill"
    /\ UNCHANGED <<dictVars, scanVars, forms, new_ret, sorter, list, pvVars, subVars,
                   loadVars, gen_len, gen_rules, gen_index, target, all_chars>>

\* the body of the loop for the next rule: lines 30..35
GenerateRule ==
    /\ pc = "fill"
    /\ gen_index < Len(gen_rules)
    /\ LET rule == gen_rules[gen_index + 1]
           amount == IF gen_len < rule.num THEN gen_len ELSE rule.num
       IN  \E r \in fill_random_char(rule.chars, amount, target) :
              IF r.ok
              THEN /\ target' = r.password
                   /\ all_chars' = all_chars \o rule.chars
                   /\ gen_index' = gen_index + 1
                   /\ UNCHANGED <<pc, gen_ret>>
              ELSE /\ gen_ret' = <<r>>
                   /\ pc' = "generated"
                   /\ UNCHANGED <<target, all_chars, gen_index>>
    /\ UNCHANGED <<dictVars, scanVars, forms, new_ret, sorter, list, pvVars, subVars,
                   loadVars, gen_len, gen_rules>>

\* line 37: len - target.chars().count(), negative where the usize underflows
Remaining(len, tgt) == len - chars_count(tgt)

\* the loop is exhausted: target is filled up to len from all_chars and returned,
\* lines 37..38.  When target is longer than len already the subtraction underflows:
\* a build that checks overflow panics, one that wraps asks fill_random_char for
\* 2^64 - (count - len) characters, which no String can hold
GenerateFill ==
    /\ pc = "fill"
    /\ gen_index = Len(gen_rules)
    /\ IF Remaining(gen_len, target) < 0
       THEN \E overflow_checks \in BOOLEAN :
               IF overflow_checks
               THEN pc' = "panic" /\ UNCHANGED <<target, gen_ret>>
               ELSE IF chars_count(all_chars) = 0
               THEN /\ gen_ret' = <<GenErr("empty range")>>
                    /\ pc' = "generated"
                    /\ UNCHANGED target
               ELSE pc' = "exhausted" /\ UNCHANGED <<target, gen_ret>>
       ELSE \E r \in fill_random_char(all_chars, Remaining(gen_len, target), target) :
               /\ gen_ret' = <<r>>
               /\ target' = IF r.ok THEN r.password ELSE target
               /\ pc' = "generated"
    /\ UNCHANGED <<dictVars, scanVars, forms, new_ret, sorter, list, pvVars, subVars,
                   loadVars, gen_len, gen_rules, gen_index, all_chars>>

\* "0", "ab"
GenChars == {<<48>>, <<97, 98>>}

CharacterRules == [chars : GenChars, num : 1..MaxNumChars]

InitGenerate ==
    /\ pc = "generate"
    /\ gen_len \in 0..MaxGenLen
    /\ gen_rules \in ListsUpTo(CharacterRules, MaxGenRules)
    /\ gen_index = 0
    /\ target = <<>>
    /\ all_chars = <<>>
    /\ gen_ret = <<>>
    /\ SubIdle
    /\ LoadIdle
    /\ NewIdle
    /\ SortIdle
    /\ ValidatorIdle
    /\ DictIdle
    /\ ScanIdle

NextGenerate == GenerateCheck \/ GenerateRule \/ GenerateFill

SpecGenerate == InitGenerate /\ [][NextGenerate]_vars

(***************************************************************************)
(* DictionarySubstringRule::do_word_search over a WordListDictionary, one  *)
(* candidate substring per step.  A &str is indexed by UTF-8 byte offsets. *)
(***************************************************************************)
\* str::is_char_boundary(k): k is where a character of s starts, or the end of s
is_char_boundary(s, k) == \E m \in 0..Len(s) : bytes_len(SubSeq(s, 1, m)) = k

\* &s[from..to] for byte offsets on character boundaries: the characters between
StrSlice(s, from, to) ==
    LET a == CHOOSE m \in 0..Len(s) : bytes_len(SubSeq(s, 1, m)) = from
        b == CHOOSE m \in 0..Len(s) : bytes_len(SubSeq(s, 1, m)) = to
    IN  SubSeq(s, a + 1, b)

\* binary_search(word_list, w) from the interval [l, r) with size sz
RECURSIVE BinarySearchFrom(_, _, _, _, _, _)
BinarySearchFrom(ws, cs, w, l, r, sz) ==
    IF ~(l < r) THEN <<>>
    ELSE LET mid == l + sz \div 2
             cmp == get_comparator(cs, ws[mid + 1], w)
             l2 == IF cmp = "Less" THEN mid + 1 ELSE l
             r2 == IF cmp = "Greater" THEN mid ELSE r
         IN  IF cmp = "Equal" THEN <<mid>> ELSE BinarySearchFrom(ws, cs, w, l2, r2, r2 - l2)

\* Dictionary::search of WordListDictionary
DictionarySearch(ws, cs, w) == BinarySearchFrom(ws, cs, w, 0, Len(ws), Len(ws)) # <<>>

\* line 31: the slice &text[j..j + i] panics unless both offsets are boundaries
SliceFails == ~(is_char_boundary(text, sub_j) /\ is_char_boundary(text, sub_j + sub_i))

\* one iteration of the while loop, lines 30..36
SubstringProbe ==
    /\ pc = "substring"
    /\ sub_i <= bytes_len(text)
    /\ sub_j + sub_i <= bytes_len(text)
    /\ IF SliceFails
       THEN pc' = "panic" /\ UNCHANGED <<sub_j, sub_ret>>
       ELSE LET s == StrSlice(text, sub_j, sub_j + sub_i)
            IN  IF DictionarySearch(words, case_sensitive, s)
                THEN /\ sub_ret' = <<s>>
                     /\ pc' = "searched"
                     /\ sub_j' = sub_j
                ELSE /\ sub_j' = sub_j + 1
                     /\ UNCHANGED <<pc, sub_ret>>
    /\ UNCHANGED <<dictVars, scanVars, forms, new_ret, sorter, list, pvVars, genVars,
                   loadVars, text, sub_i>>

\* the while loop ends: the for loop takes the next length, lines 28..29
SubstringNextLength ==
    /\ pc = "substring"
    /\ sub_i <= bytes_len(text)
    /\ ~(sub_j + sub_i <= bytes_len(text))
    /\ sub_i' = sub_i + 1
    /\ sub_j' = 0
    /\ UNCHANGED <<pc, dictVars, scanVars, forms, new_ret, sorter, list, pvVars, genVars,
                   loadVars, text, sub_ret>>

\* the for loop is exhausted: None, line 38
SubstringNone ==
    /\ pc = "substring"
    /\ sub_i > bytes_len(text)
    /\ sub_ret' = <<>>
    /\ pc' = "searched"
    /\ UNCHANGED <<dictVars, scanVars, forms, new_ret, sorter, list, pvVars, genVars,
                   loadVars, text, sub_i, sub_j>>

\* "a", "b" and "\u{e9}", which takes two bytes
TextChars == {97, 98, 233}

Texts == UNION {[1..k -> TextChars] : k \in 0..MaxTextLen}

\* the words of the dictionary: "a", "ab", "b\u{e9}", "\u{e9}"
SubstringWords == {<<97>>, <<97, 98>>, <<98, 233>>, <<233>>}

\* do_word_search(text) at the head of its for loop, i = 1 and j = 0, over a
\* dictionary built from a sorted word list
InitSubstring ==
    /\ pc = "substring"
    /\ text \in Texts
    /\ sub_i = 1
    /\ sub_j = 0
    /\ sub_ret = <<>>
    /\ case_sensitive \in BOOLEAN
    /\ words \in {ws \in ListsUpTo(SubstringWords, MaxSubWords) : IsSorted(ws, case_sensitive)}
    /\ word = <<>>
    /\ size = 0
    /\ left = 0
    /\ right = 0
    /\ ret = <<>>
    /\ tree = TstNew(FALSE)
    /\ iter = 0
    /\ tst_ret = <<>>
    /\ GenIdle
    /\ LoadIdle
    /\ NewIdle
    /\ SortIdle
    /\ ValidatorIdle
    /\ ScanIdle

NextSubstring == SubstringProbe \/ SubstringNextLength \/ SubstringNone

SpecSubstring == InitSubstring /\ [][NextSubstring]_vars

(***************************************************************************)
(* The word-list loaders create_from_read and create_from_reads.  The text *)
(* of a reader is its characters, LF being 10 and CR 13.                   *)
(***************************************************************************)
\* s.replace('\r', "\n")
ReplaceCr(s) == [k \in 1..Len(s) |-> IF s[k] = 13 THEN 10 ELSE s[k]]

\* s.lines(): the pieces between line feeds; a line feed at the end of the text
\* ends the last line and starts no empty one
RECURSIVE LinesFrom(_, _)
LinesFrom(s, cur) ==
    IF s = <<>> THEN (IF cur = <<>> THEN <<>> ELSE <<cur>>)
    ELSE IF Head(s) = 10 THEN <<cur>> \o LinesFrom(Tail(s), <<>>)
    ELSE LinesFrom(Tail(s), Append(cur, Head(s)))

Lines(s) == LinesFrom(s, <<>>)

\* .filter(|s| !s.is_empty())
NonEmpty(ls) == SelectSeq(ls, LAMBDA l : l # <<>>)

\* create_from_read(read, case_sensitive, sorter)
create_from_read(read, cs, name, overflow_checks) ==
    with_sorter(NonEmpty(Lines(ReplaceCr(read))), cs, name, overflow_checks)

\* read_words(read)
read_words(read) == Lines(ReplaceCr(read))

\* the loop of create_from_reads: read_word_list extends words by read_words
RECURSIVE read_word_lists(_, _)
read_word_lists(reads, ws) ==
    IF reads = <<>> THEN ws
    ELSE read_word_lists(Tail(reads), ws \o read_words(Head(reads)))

\* create_from_reads(reads, case_sensitive, sorter)
create_from_reads(reads, cs, name, overflow_checks) ==
    with_sorter(read_word_lists(reads, <<>>), cs, name, overflow_checks)

\* create_from_read on the input
CreateFromRead ==
    /\ pc = "load"
    /\ read_ret = <<>>
    /\ \E overflow_checks \in BOOLEAN :
          read_ret' = <<create_from_read(input, case_sensitive, sorter, overflow_checks)>>
    /\ UNCHANGED <<pc, dictVars, scanVars, forms, new_ret, sorter, list, pvVars, genVars,
                   subVars, input, reads_ret>>

\* create_from_reads on the input as the only reader, as DictionaryBuilder::build
\* calls it
CreateFromReads ==
    /\ pc = "load"
    /\ reads_ret = <<>>
    /\ \E overflow_checks \in BOOLEAN :
          reads_ret' =
              <<create_from_reads(<<input>>, case_sensitive, sorter, overflow_checks)>>
    /\ UNCHANGED <<pc, dictVars, scanVars, forms, new_ret, sorter, list, pvVars, genVars,
                   subVars, input, read_ret>>

\* "a", "b", LF and CR
InputChars == {97, 98, 10, 13}

Inputs == UNION {[1..k -> InputChars] : k \in 0..MaxInputLen}

\* the sorters the loaders are called with: DictionaryBuilder::build passes
\* SliceSort, the word-list tests pass None
LoadSorters == {"SliceSort", "None"}

InitLoad ==
    /\ pc = "load"
    /\ input \in Inputs
    /\ case_sensitive \in BOOLEAN
    /\ sorter \in LoadSorters
    /\ read_ret = <<>>
    /\ reads_ret = <<>>
    /\ list = <<>>
    /\ words = <<>>
    /\ word = <<>>
    /\ size = 0
    /\ left = 0
    /\ right = 0
    /\ ret = <<>>
    /\ tree = TstNew(FALSE)
    /\ iter = 0
    /\ tst_ret = <<>>
    /\ GenIdle
    /\ SubIdle
    /\ NewIdle
    /\ ValidatorIdle
    /\ ScanIdle

NextLoad == CreateFromRead \/ CreateFromReads

SpecLoad == InitLoad /\ [][NextLoad]_vars

(***************************************************************************)
(* The whole program.                                                      *)
(***************************************************************************)
Init ==
    \/ InitSearch \/ InitBisect \/ InitDict \/ InitScan \/ InitRule \/ InitNew \/ InitSort
    \/ InitValidator \/ InitGenerate \/ InitSubstring \/ InitLoad

Next ==
    \/ NextSearch \/ NextDict \/ NextRule \/ NextNew \/ NextSort \/ NextValidator
    \/ NextGenerate \/ NextSubstring \/ NextLoad

Spec == Init /\ [][Next]_vars

(***************************************************************************)
(* validate as a function of its inputs: the same steps, folded.           *)
(***************************************************************************)
RECURSIVE ScanChars(_, _, _, _, _, _, _)
ScanChars(st, cs, txt, i, l, wr, all) ==
    IF i > Len(txt) THEN st
    ELSE ScanChars(ScanStep(st, cs, txt[i], l, wr, all), cs, txt, i + 1, l, wr, all)

RECURSIVE ScanSequences(_, _, _, _, _, _, _)
ScanSequences(st, seqs, k, txt, l, wr, all) ==
    IF k > Len(seqs) THEN st
    ELSE ScanSequences(
             ScanChars([st EXCEPT !.direction = 0, !.prev_position = -1],
                       seqs[k], txt, 1, l, wr, all),
             seqs, k + 1, txt, l, wr, all)

\* the details validate returns for the given rule and password
Validate(pw, seqs, l, wr, all) ==
    ScanSequences([direction |-> 0, prev_position |-> -1, match_builder |-> <<>>,
                   result |-> <<>>],
                  seqs, 1, Append(pw, Sentinel), l, wr, all).result

(***************************************************************************)
(* Claims about the scanner.                                               *)
(***************************************************************************)
\* the step from character x to character y in cs as the scan folds it: +1 or -1
\* for a unit step, a jump between the ends counting as one when wrap is set
StepIn(cs, x, y) ==
    LET p == index_of(cs, x)
        q == index_of(cs, y)
        n == cs_length(cs)
    IN  IF p < 0 \/ q < 0 THEN 0
        ELSE IF wrap /\ q - p = n - 1 THEN -1
        ELSE IF wrap /\ q - p = 1 - n THEN 1
        ELSE q - p

\* password[a..b] is a maximal run of direction d in cs
IsMaximalRun(cs, a, b, d) ==
    /\ a < b
    /\ \A i \in a..(b - 1) : StepIn(cs, password[i], password[i + 1]) = d
    /\ a = 1 \/ StepIn(cs, password[a - 1], password[a]) # d
    /\ b = Len(password) \/ StepIn(cs, password[b], password[b + 1]) # d

\* the maximal runs of at least `length` characters: <<sequence, first, last>>
LongRuns ==
    {r \in (1..Len(sequences)) \X (1..Len(password)) \X (1..Len(password)) :
        /\ r[3] - r[2] + 1 >= length
        /\ \E d \in {1, -1} : IsMaximalRun(sequences[r[1]], r[2], r[3], d)}

RunText(r) == SubSeq(password, r[2], r[3])

Occurrences(seq, x) == Cardinality({k \in 1..Len(seq) : seq[k] = x})

IsSubstring(v, pw) ==
    \E a \in 1..Len(pw) : a + Len(v) - 1 <= Len(pw) /\ SubSeq(pw, a, a + Len(v) - 1) = v

\* x and y lie in cs one unit step of direction d apart, the ends of cs being
\* adjacent only when wrap is set
IsUnitStep(cs, x, y, d) ==
    \E i, j \in 0..(cs_length(cs) - 1) :
        /\ matches(cs, i, x)
        /\ matches(cs, j, y)
        /\ \/ j - i = d
           \/ wrap /\ d = 1 /\ i = cs_length(cs) - 1 /\ j = 0
           \/ wrap /\ d = -1 /\ i = 0 /\ j = cs_length(cs) - 1

\* C6: every violation recorded is a contiguous substring of the password without
\* the sentinel, has at least `length` characters, and steps by one unit direction
\* throughout within one CharacterSequence of the catalog.
C6_ViolationsAreRuns ==
    \A k \in 1..Len(result) :
        LET v == result[k]
        IN  /\ v # <<>>
            /\ Len(v) >= length
            /\ IsSubstring(v, password)
            /\ Sentinel \notin Range(v)
            /\ \E s \in 1..Len(sequences), d \in {1, -1} :
                  /\ \A m \in 1..Len(v) : index_of(sequences[s], v[m]) >= 0
                  /\ \A m \in 1..(Len(v) - 1) :
                        IsUnitStep(sequences[s], v[m], v[m + 1], d)

\* C6 witness: a scan of TwoRows with wrap that returned a violation of three
\* characters and a violation from the second sequence
C6_Witness ==
    /\ pc = "returned"
    /\ sequences = TwoRows
    /\ wrap
    /\ Len(result) >= 2
    /\ \E k \in 1..Len(result) : Len(result[k]) = 3
    /\ \E k \in 1..Len(result) : 122 \in Range(result[k])

\* C7: with report_all and length >= 2, each maximal run of at least `length`
\* characters in each sequence is recorded exactly once with its text, and nothing
\* else is recorded: every text occurs among the violations as often as there are
\* such runs carrying it.
C7_EachMaximalRunOnce ==
    (pc = "returned" /\ report_all /\ length >= 2) =>
        \A t \in Range(result) \cup {RunText(r) : r \in LongRuns} :
            Occurrences(result, t) = Cardinality({r \in LongRuns : RunText(r) = t})

\* C7 witness: a single sequence, a password whose run text occurs at two positions,
\* both recorded, with a third run between them
C7_Witness ==
    /\ pc = "returned"
    /\ report_all
    /\ length = 2
    /\ sequences = Alphabetical
    /\ Len(result) = 3
    /\ result[1] = result[3]
    /\ result[1] # result[2]

\* the violation is a chain of plain unit steps, none between the ends, in some sequence
IsPlainRun(v) ==
    \E s \in 1..Len(sequences), d \in {1, -1} :
        \A m \in 1..(Len(v) - 1) :
            /\ index_of(sequences[s], v[m]) >= 0
            /\ index_of(sequences[s], v[m + 1]) >= 0
            /\ index_of(sequences[s], v[m + 1]) - index_of(sequences[s], v[m]) = d

\* the pair of characters is a jump between the ends of cs that is no plain unit step
IsEndJump(cs, x, y) ==
    LET p == index_of(cs, x)
        q == index_of(cs, y)
        n == cs_length(cs)
    IN  p >= 0 /\ q >= 0 /\ n >= 3 /\ (q - p = n - 1 \/ q - p = 1 - n)

\* C8: without wrap a step between the ends of a sequence never continues a run
\* ("yza", alphabet, length 3: nothing); with wrap it continues the run in its
\* direction, so the maximal run through the jump is recorded whole ("yza": one
\* violation "yza").
C8_Wraparound ==
    pc = "returned" =>
        /\ (password = <<121, 122, 97>> /\ sequences = Alphabetical /\ length = 3) =>
              result = IF wrap THEN <<password>> ELSE <<>>
        /\ ~wrap => \A k \in 1..Len(result) : IsPlainRun(result[k])
        /\ (wrap /\ report_all /\ length >= 2) =>
              \A r \in LongRuns :
                  (\E i \in r[2]..(r[3] - 1) :
                      IsEndJump(sequences[r[1]], password[i], password[i + 1]))
                  => RunText(r) \in Range(result)

\* C8 witness: "yza" scanned with wrap against the alphabet, one violation "yza"
C8_Witness ==
    /\ pc = "returned"
    /\ wrap
    /\ password = <<121, 122, 97>>
    /\ sequences = Alphabetical
    /\ length = 3
    /\ result = <<password>>

\* C9: without report_all validate records at most one violation, the first one of
\* the same scan with report_all, and none when that scan records none.
C9_SingleReport ==
    (pc = "returned" /\ ~report_all) =>
        LET full == Validate(password, sequences, length, wrap, TRUE)
        IN  result = IF full = <<>> THEN <<>> ELSE <<full[1]>>

\* C9 witness: a scan without report_all that returned one violation where the scan
\* with report_all records three
C9_Witness ==
    /\ pc = "returned"
    /\ ~report_all
    /\ Len(result) = 1
    /\ Len(Validate(password, sequences, length, wrap, TRUE)) >= 3

\* the first index of the stretch of steps d that ends at index p of the password
RunStart(cs, p, d) ==
    Min({a \in 1..p : \A i \in a..(p - 1) : StepIn(cs, password[i], password[i + 1]) = d})

\* the last index of the stretch of steps d that starts at index p of the password
RunEnd(cs, p, d) ==
    -Min({-b : b \in {b \in p..Len(password) :
                 \A i \in p..(b - 1) : StepIn(cs, password[i], password[i + 1]) = d}})

\* C10: where a run reverses direction the run before the reversal is recorded if it
\* has at least `length` characters, and the run after it starts with the pivot
\* character, which belongs to both; "qwertytrewq", US-QWERTY, length 6: exactly the
\* two violations "qwerty" and "ytrewq".
C10_ReversalSharesPivot ==
    (pc = "returned" /\ report_all) =>
        /\ (password = <<113, 119, 101, 114, 116, 121, 116, 114, 101, 119, 113>>
               /\ sequences = USQwerty /\ length = 6) =>
              result = << <<113, 119, 101, 114, 116, 121>>,
                          <<121, 116, 114, 101, 119, 113>> >>
        /\ \A s \in 1..Len(sequences), p \in 2..(Len(password) - 1) :
              LET cs == sequences[s]
                  d == StepIn(cs, password[p - 1], password[p])
              IN  (d \in {1, -1} /\ StepIn(cs, password[p], password[p + 1]) = -d) =>
                      /\ p - RunStart(cs, p, d) + 1 >= length =>
                            SubSeq(password, RunStart(cs, p, d), p) \in Range(result)
                      /\ RunEnd(cs, p, -d) - p + 1 >= length =>
                            SubSeq(password, p, RunEnd(cs, p, -d)) \in Range(result)

\* C10 witness: "qwertytrewq" scanned against US-QWERTY with length 6, two violations
C10_Witness ==
    /\ pc = "returned"
    /\ report_all
    /\ password = <<113, 119, 101, 114, 116, 121, 116, 114, 101, 119, 113>>
    /\ sequences = USQwerty
    /\ length = 6
    /\ Len(result) = 2

\* the violations of scanning the password against each of the sequences k.. alone,
\* each scan starting from fresh state, concatenated in catalog order
RECURSIVE AloneConcat(_)
AloneConcat(k) ==
    IF k > Len(sequences) THEN <<>>
    ELSE Validate(password, <<sequences[k]>>, length, wrap, report_all) \o AloneConcat(k + 1)

\* C11: for a catalog of several sequences and report_all = true, the violations
\* validate returns are the concatenation, in catalog order, of the violations of
\* scanning the password against each sequence alone from fresh scan state; what one
\* sequence leaves in match_builder changes nothing for the next
C11_SequencesIndependent ==
    (pc = "returned" /\ report_all /\ Len(sequences) > 1) => result = AloneConcat(1)

\* a catalog of two sequences, each with a violation of its own, scanned to the end
C11_Witness ==
    /\ pc = "returned"
    /\ report_all
    /\ Len(sequences) = 2
    /\ \A k \in 1..2 : Validate(password, <<sequences[k]>>, length, wrap, TRUE) # <<>>
    /\ Len(result) >= 2
    /\ match_builder = <<Sentinel>>


\* the scan of txt against cs from position i on, recording where each violation lies:
\* a violation recorded at text position i spans the match_builder before it
RECURSIVE ScanSpans(_, _, _, _, _, _, _, _)
ScanSpans(st, spans, cs, txt, i, l, wr, all) ==
    IF i > Len(txt) THEN spans
    ELSE LET n == ScanStep(st, cs, txt[i], l, wr, all)
         IN  ScanSpans(n,
                       IF Len(n.result) > Len(st.result)
                       THEN Append(spans, <<i - Len(st.match_builder), i - 1>>)
                       ELSE spans,
                       cs, txt, i + 1, l, wr, all)

\* <<first, last>> of each violation of pw in the sequence cs alone
Spans(pw, cs, l, wr, all) ==
    ScanSpans([direction |-> 0, prev_position |-> -1, match_builder |-> <<>>,
               result |-> <<>>],
              <<>>, cs, Append(pw, Sentinel), 1, l, wr, all)

\* each character of cs occurs at one position only, in whatever forms
EachCharAtOnePosition(cs) ==
    \A f, g \in 1..Len(cs) : \A p, q \in 1..cs_length(cs) :
        cs[f][p] = cs[g][q] => p = q

\* C12: the forms of a CharacterSequence are equivalent at a position: when each
\* character occurs at one position only of the sequence, a character of any form at
\* position p has index p, matches(p, c) holds for it, and replacing a password
\* character by the character of another form at the same position changes neither
\* the number nor the positions of the violations found in that sequence
C12_FormsEquivalent ==
    pc = "returned" =>
        \A k \in 1..Len(sequences) :
            LET cs == sequences[k]
            IN  EachCharAtOnePosition(cs) =>
                    \A i \in 1..Len(password) :
                        LET p == index_of(cs, password[i])
                        IN  p >= 0 =>
                                \A f \in 1..Len(cs) :
                                    LET c == cs[f][p + 1]
                                    IN  /\ matches(cs, p, c)
                                        /\ index_of(cs, c) = p
                                        /\ Spans([password EXCEPT ![i] = c], cs,
                                                 length, wrap, report_all)
                                             = Spans(password, cs, length, wrap,
                                                     report_all)

\* a password with a character of the second form inside a violation of a sequence
\* whose first form has another character at that position
C12_Witness ==
    /\ pc = "returned"
    /\ result # <<>>
    /\ \E k \in 1..Len(sequences) : \E i \in 1..Len(password) :
          LET cs == sequences[k]
              p == index_of(cs, password[i])
          IN  /\ EachCharAtOnePosition(cs)
              /\ Len(cs) >= 2
              /\ p >= 0
              /\ password[i] = cs[2][p + 1]
              /\ password[i] # cs[1][p + 1]
              /\ \E n \in 1..Len(Spans(password, cs, length, wrap, report_all)) :
                    LET sp == Spans(password, cs, length, wrap, report_all)[n]
                    IN  sp[1] <= i /\ i <= sp[2] /\ sp[1] < sp[2]


\* every form of every sequence has a character at each index below length()
MatchesInBounds ==
    \A k \in 1..Len(sequences) : \A f \in 1..Len(sequences[k]) :
        \A i \in 0..(cs_length(sequences[k]) - 1) : i < Len(sequences[k][f])

\* C13: validate never fails, whatever the password, the catalog of validly
\* constructed sequences, the length, wrap and report_all: match_builder is not empty
\* when last().unwrap() trims it, matches is called with indices below length()
\* only, and an empty password or an empty catalog gives no violation
C13_ScanNeverFails ==
    /\ pc # "panic"
    /\ (pc = "inner" /\ char_index < Len(Text)) =>
           ~UnwrapFails(ScanState, sequences[cs_index + 1], Text[char_index + 1], wrap)
    /\ MatchesInBounds
    /\ (pc = "returned" /\ (password = <<>> \/ sequences = <<>>)) => result = <<>>

\* the scan has passed a sequence without keys and one of a single key and has just
\* trimmed match_builder to its last character in the third
C13_Witness ==
    /\ pc = "inner"
    /\ sequences = ShortRows
    /\ cs_index = 2
    /\ char_index >= 2
    /\ direction # 0
    /\ Len(match_builder) = 2
    /\ match_builder = SubSeq(password, char_index - 1, char_index)

C14_NewContract ==
    pc = "newed" =>
        LET r == new_ret[1]
            unequal == \E i \in 1..Len(forms) : Len(forms[i]) # Len(forms[1])
        IN  /\ r.ok <=> ~(forms = <<>> \/ unequal)
            /\ forms = <<>> => r.err = "At least one sequence must be defined"
            /\ (forms # <<>> /\ unequal) => r.err = "Strings have unequal length"
            /\ r.ok => /\ r.forms = forms
                       /\ \A f \in 1..Len(r.forms) : Len(r.forms[f]) = cs_length(r.forms)

\* forms of as many characters but not as many bytes, accepted
C14_Witness ==
    /\ pc = "newed"
    /\ new_ret[1].ok
    /\ Len(forms) >= 2
    /\ cs_length(new_ret[1].forms) >= 1
    /\ \E i \in 1..Len(forms) : bytes_len(forms[i]) # bytes_len(forms[1])


(***************************************************************************)
(* Claims about the sorters and the word list built with them.             *)
(***************************************************************************)
IsPermutation(a, b) ==
    /\ Len(a) = Len(b)
    /\ \A x \in Range(a) \cup Range(b) : Occurrences(a, x) = Occurrences(b, x)

\* some adjacent pair of a compares Greater
Unsorted(a, cs) ==
    \E i \in 1..(Len(a) - 1) : get_comparator(cs, a[i], a[i + 1]) = "Greater"

\* C15: for each sorter, each of the two comparators and every array of at least
\* one word, duplicates allowed, the array after sort_with_comparator is a
\* permutation of the input in which no adjacent pair compares Greater
C15_SortedPermutation ==
    (list # <<>> /\ sorter \in Sorters /\ Len(words) >= 1) =>
        /\ list[1].ok
        /\ IsPermutation(list[1].array, words)
        /\ ~Unsorted(list[1].array, case_sensitive)

\* four words out of order, one of them twice, sorted by QuickSort
C15_Witness ==
    /\ pc = "constructed"
    /\ sorter = "QuickSort"
    /\ Len(words) = 4
    /\ Cardinality(Range(words)) = 3
    /\ Unsorted(words, case_sensitive)
    /\ ~Unsorted(list[1].array, case_sensitive)

\* C16 as claimed: with_sorter on an empty vector completes with every sorter and
\* gives a list of length 0
C16_EmptyInputValid ==
    (list # <<>> /\ sorter \in Sorters /\ words = <<>>) =>
        (list[1].ok /\ WordListLen(list[1]) = 0)

\* C17: with the case-sensitive comparator every sorter leaves the array SliceSort
\* leaves, for every array of at least one word
C17_SortersAgree ==
    (list # <<>> /\ sorter \in Sorters /\ case_sensitive /\ Len(words) >= 1) =>
        list[1] = SliceSort(words, TRUE)

\* InsertionSort has reordered an array with a repeated word as SliceSort does
C17_Witness ==
    /\ pc = "constructed"
    /\ sorter = "InsertionSort"
    /\ case_sensitive
    /\ Len(words) = 4
    /\ Cardinality(Range(words)) < 4
    /\ list[1].array # words
    /\ list[1].array = SliceSort(words, TRUE).array

\* C18: a word list built without a sorter keeps the words as given: len() is the
\* number of words and list[i] is the i-th word, nothing reordered, trimmed or dropped
C18_NoSorterKeepsWords ==
    (list # <<>> /\ sorter = "None") =>
        /\ list[1].ok
        /\ WordListLen(list[1]) = Len(words)
        /\ \A i \in 0..(Len(words) - 1) : WordListIndex(list[1], i) = words[i + 1]

\* a list built without a sorter from words out of order, among them the empty word
\* and words with a leading and a trailing space
C18_Witness ==
    /\ pc = "constructed"
    /\ sorter = "None"
    /\ Unsorted(words, case_sensitive)
    /\ {<<>>, <<32, 97>>, <<97, 32>>} \subseteq Range(words)
    /\ list[1].array = words


(***************************************************************************)
(* Claims about PasswordValidator.                                         *)
(***************************************************************************)
\* the details of the results k.. that are not valid, in rule order
RECURSIVE InvalidDetails(_, _)
InvalidDetails(rrs, k) ==
    IF k > Len(rrs) THEN <<>>
    ELSE (IF rrs[k].valid THEN <<>> ELSE rrs[k].details) \o InvalidDetails(rrs, k + 1)

\* C20: the result of PasswordValidator.validate is valid iff every rule returns a
\* valid result, its details are the concatenation in rule order of the details of
\* the rules that returned an invalid result, and a valid password has no details
C20_ValidatorAggregates ==
    pc = "validated" =>
        /\ pv_result.valid <=> \A k \in 1..Len(rule_results) : rule_results[k].valid
        /\ pv_result.details = InvalidDetails(rule_results, 1)
        /\ pv_result.valid => pv_result.details = <<>>

\* a rule that is valid with details of its own, then a rule that is not valid: the
\* result carries the details of the second only
C20_Witness ==
    /\ pc = "validated"
    /\ Len(rule_results) = 2
    /\ rule_results[1].valid /\ rule_results[1].details # <<>>
    /\ ~rule_results[2].valid /\ rule_results[2].details # <<>>
    /\ ~pv_result.valid
    /\ pv_result.details = rule_results[2].details


(***************************************************************************)
(* Claims about PasswordGenerator.                                         *)
(***************************************************************************)
\* C21 as claimed: generate_password(len, rules) with len > 0 and at least one rule
\* returns Ok with a password of at least len characters, and the remaining length
\* len - (characters already generated) never underflows
C21_GeneratesWithoutUnderflow ==
    (gen_len > 0 /\ gen_rules # <<>>) =>
        /\ pc \notin {"panic", "exhausted"}
        /\ (pc = "fill" /\ gen_index = Len(gen_rules)) => Remaining(gen_len, target) >= 0
        /\ gen_ret # <<>> => (gen_ret[1].ok /\ chars_count(gen_ret[1].password) >= gen_len)


(***************************************************************************)
(* Further claims about binary_search.                                     *)
(***************************************************************************)
\* the bisection of [l, r) that probes l + (r - l) / 2 and stops at the first Equal
RECURSIVE Bisect(_, _)
Bisect(l, r) ==
    IF l >= r THEN <<>>
    ELSE LET mid == l + (r - l) \div 2
             cmp == get_comparator(case_sensitive, words[mid + 1], word)
         IN  IF cmp = "Equal" THEN <<mid>>
             ELSE IF cmp = "Less" THEN Bisect(mid + 1, r)
             ELSE Bisect(l, mid)

\* C22: binary_search returns the first Equal entry that the bisection from [0, N)
\* with mid = left + (right - left) / 2 probes; for three equal entries that is
\* index 1, which is not the lowest matching index.
C22_FirstEqualProbed ==
    pc = "done" =>
        /\ ret = Bisect(0, Len(words))
        /\ (Len(words) = 3 /\ EqualEntries = {0, 1, 2}) => ret = <<1>>

\* C22 witness: three entries all Equal to the target, index 1 returned although
\* index 0 matches too
C22_Witness ==
    /\ pc = "done"
    /\ Len(words) = 3
    /\ EqualEntries = {0, 1, 2}
    /\ ret = <<1>>
    /\ \E i \in EqualEntries : i < ret[1]

\* C23: binary_search terminates on every list, sorted or not, and every target:
\* each iteration that does not return strictly shrinks right - left, and on an
\* empty list the only step returns None with the interval untouched (no probe).
C23_Terminates ==
    /\ <>(pc = "done")
    /\ [][(pc = "search" /\ pc' = "search") => right' - left' < right - left]_vars
    /\ [][Len(words) = 0 =>
            (pc' = "done" /\ ret' = <<>> /\ ~ENABLED BsProbe
                /\ left' = left /\ right' = right)]_vars

\* C23 witness: the search of an unsorted list has ended after probing, missing an
\* entry that is in the list
C23_Witness ==
    /\ pc = "done"
    /\ ~IsSorted(words, case_sensitive)
    /\ EqualEntries # {}
    /\ ret = <<>>
    /\ left > 0

\* C27: at every loop head of binary_search 0 <= left <= right <= N and
\* size = right - left, so the probe left + size / 2 lies in [left, right) and is
\* a valid index; on a sorted list every entry below left compares Less than the
\* target and every entry at or above right compares Greater.
C27_LoopInvariant ==
    pc = "search" =>
        /\ 0 <= left /\ left <= right /\ right <= Len(words)
        /\ size = right - left
        /\ left < right => (left <= BsMid /\ BsMid < right /\ BsMid + 1 \in DOMAIN words)
        /\ IsSorted(words, case_sensitive) =>
              /\ \A i \in 0..(left - 1) :
                    get_comparator(case_sensitive, words[i + 1], word) = "Less"
              /\ \A i \in right..(Len(words) - 1) :
                    get_comparator(case_sensitive, words[i + 1], word) = "Greater"

\* C27 witness: a loop head on a sorted list of four words where both bounds have
\* moved inwards
C27_Witness ==
    /\ pc = "search"
    /\ IsSorted(words, case_sensitive)
    /\ Len(words) = 4
    /\ 0 < left
    /\ right < Len(words)

(***************************************************************************)
(* Further claims about IllegalSequenceRule::validate.                     *)
(***************************************************************************)
\* C24 as claimed: with minimum run length 0, validate records no violation,
\* whatever the password and the sequences.
C24_ZeroLengthNoViolations ==
    (pc = "returned" /\ length = 0) => result = <<>>

IsSuffix(a, b) == Len(a) <= Len(b) /\ SubSeq(b, Len(b) - Len(a) + 1, Len(b)) = a

\* C28: after each character of the sentinel-terminated password is processed,
\* direction is -1, 0 or 1; direction = 0 means match_builder holds exactly the
\* current character; direction # 0 means match_builder holds at least two
\* characters and the current character is in the sequence; and match_builder is a
\* suffix of the text scanned so far.
C28_ScanStateInvariant ==
    (pc = "inner" /\ char_index >= 1) =>
        LET c == Text[char_index]
            scanned == SubSeq(Text, 1, char_index)
        IN  /\ direction \in {-1, 0, 1}
            /\ direction = 0 => match_builder = <<c>>
            /\ direction # 0 =>
                  /\ Len(match_builder) >= 2
                  /\ index_of(sequences[cs_index + 1], c) >= 0
            /\ IsSuffix(match_builder, scanned)

\* C28 witness: a reversal has just been processed, match_builder restarts from the
\* pivot and is a proper suffix of the three characters scanned
C28_Witness ==
    /\ pc = "inner"
    /\ char_index = 3
    /\ direction = -1
    /\ Len(match_builder) = 2
    /\ match_builder = SubSeq(password, 2, 3)

(***************************************************************************)
(* Further claims about the dictionaries.                                  *)
(***************************************************************************)
\* the nodes holding the keys that compete with node n for one character position:
\* n and what left and right links reach from it
RECURSIVE Level(_, _)
Level(t, n) ==
    IF n = 0 THEN {}
    ELSE {n} \cup Level(t, t.nodes[n].left) \cup Level(t, t.nodes[n].right)

\* every node below link n with the string its chain of mid links spells
RECURSIVE Spelled(_, _, _)
Spelled(t, n, prefix) ==
    IF n = 0 THEN {}
    ELSE LET str == Append(prefix, t.nodes[n].key)
         IN  {[node |-> n, str |-> str]}
                 \cup Spelled(t, t.nodes[n].left, prefix)
                 \cup Spelled(t, t.nodes[n].right, prefix)
                 \cup Spelled(t, t.nodes[n].mid, str)

Inserted == {words[i] : i \in 1..iter}

\* C25: after any sequence of inserts, each inserted word of length L is reached
\* from the root by a descent of exactly L key-equal steps; a node carries a value
\* iff its chain spells an inserted word under the case policy; and at every node
\* the keys reached through left (the smaller candidates for the same character
\* position) compare Less than the node's key, those reached through right Greater.
C25_TreeShape ==
    pc \in {"build", "ready"} =>
        LET chains == Spelled(tree, tree.root, <<>>)
        IN  /\ {e.node : e \in chains} = 1..Len(tree.nodes)
            /\ Cardinality(chains) = Len(tree.nodes)
            /\ \A w \in Inserted :
                  \E e \in chains :
                     /\ e.node = TstDescend(tree, tree.root, w, 1)
                     /\ Len(e.str) = Len(w)
                     /\ Fold(e.str) = Fold(w)
            /\ \A e \in chains :
                  tree.nodes[e.node].value <=> (Fold(e.str) \in {Fold(w) : w \in Inserted})
            /\ \A n \in 1..Len(tree.nodes) :
                  /\ \A m \in Level(tree, tree.nodes[n].left) :
                        TstCmpChar(tree, tree.nodes[m].key, tree.nodes[n].key) = "Less"
                  /\ \A m \in Level(tree, tree.nodes[n].right) :
                        TstCmpChar(tree, tree.nodes[m].key, tree.nodes[n].key) = "Greater"

\* C25 witness: a built tree of three nodes where the root has a left child that
\* carries no value and starts the chain of a longer word
C25_Witness ==
    /\ pc = "ready"
    /\ Len(tree.nodes) = 3
    /\ tree.nodes[tree.root].left > 0
    /\ LET n == tree.nodes[tree.root].left
       IN  ~tree.nodes[n].value /\ tree.nodes[n].mid > 0

SubstringMatches ==
    {p \in (1..Len(text)) \X (0..Len(text)) :
        /\ p[1] + p[2] <= Len(text)
        /\ DictionarySearch(words, case_sensitive, SubSeq(text, p[2] + 1, p[2] + p[1]))}

\* the shortest match, leftmost among the shortest, <<>> when there is none
FirstSubstringMatch ==
    IF SubstringMatches = {} THEN <<>>
    ELSE LET p == CHOOSE q \in SubstringMatches :
                    \A o \in SubstringMatches :
                       q[1] < o[1] \/ (q[1] = o[1] /\ q[2] <= o[2])
         IN  <<SubSeq(text, p[2] + 1, p[2] + p[1])>>

\* C26 as claimed: do_word_search completes without failure for every password,
\* multi-byte characters included, and returns the shortest substring the
\* dictionary contains, leftmost among the shortest, or None when there is none.
C26_ShortestLeftmostNoFailure ==
    /\ pc # "panic"
    /\ pc = "searched" => sub_ret = FirstSubstringMatch

(***************************************************************************)
(* Claims about the word-list loaders.                                     *)
(***************************************************************************)
\* C30 as claimed: for the same input, case flag and sorter, create_from_reads with
\* one reader yields the word list create_from_read yields, whatever the line
\* terminators and blank lines; neither list holds the empty word.
C30_LoadersAgree ==
    /\ (read_ret # <<>> /\ reads_ret # <<>>) => reads_ret = read_ret
    /\ read_ret # <<>> => <<>> \notin Range(read_ret[1].array)
    /\ reads_ret # <<>> => <<>> \notin Range(reads_ret[1].array)

=============================================================================
